---- MODULE Spec2Model ----
(***************************************************************************)
(* WristbandAuthProvider (react-client-auth): the session bootstrap run by *)
(* the provider's mount effect and the getToken()/clearToken() token       *)
(* engine, together with the auth state they share.                        *)
(*                                                                         *)
(* React state is modelled in two layers, as the component has them: the   *)
(* state variables hold the value of the latest setState call, and         *)
(* `rendered` holds the values the latest render of the provider saw.      *)
(* getToken is a useCallback over [isAuthenticated, accessToken,           *)
(* accessTokenExpiresAt], so a call reads those three from `rendered`;     *)
(* tokenRequestRef is a ref and is read and written directly.              *)
(*                                                                         *)
(* The state updates of the bootstrap are made after an await, outside any *)
(* React event handler. A root of React 18 (createRoot) batches them into  *)
(* one render; React 17 and legacy roots, which the package supports       *)
(* (peer dependency react >= 17), render after each single update.         *)
(***************************************************************************)
EXTENDS Integers, Sequences, FiniteSets, TLC

\* ---------------------------------------------------------------- bounds
MaxCalls == 2        \* getToken() invocations
MaxFetches == 2      \* token fetches (request/retry sequences) started
MaxClears == 1       \* clearToken() + clearAuthData() invocations
MaxUpdates == 1      \* updateMetadata() invocations
MaxTicks == 1        \* clock advances

\* ------------------------------------------------------ program constants
TOKEN_EXPIRATION_BUFFER_TIME_MS == 30000
MAX_API_ATTEMPTS == 3
API_RETRY_DELAY_MS == 100

\* Strings that the code trims are sequences of one-character strings.
RECURSIVE TrimStart(_)
TrimStart(s) == IF s # <<>> /\ Head(s) = " " THEN TrimStart(Tail(s)) ELSE s

RECURSIVE TrimEnd(_)
TrimEnd(s) ==
    IF s # <<>> /\ s[Len(s)] = " " THEN TrimEnd(SubSeq(s, 1, Len(s) - 1)) ELSE s

trim(s) == TrimEnd(TrimStart(s))

\* !obj.field || !obj.field.trim(): the field is absent, '' or blank.
Blank(obj, field) ==
    \/ field \notin DOMAIN obj
    \/ obj[field] = <<>>
    \/ trim(obj[field]) = <<>>

\* ------------------------------------------------------------------ errors
NoCause == [cls |-> "none", status |-> 0, at |-> 0]

\* ApiError thrown by apiClient.get for a non-2xx status, raised by call `at`.
ApiError(status, at) == [cls |-> "ApiError", status |-> status, at |-> at]

\* What fetch() itself rejects with on a network failure.
NetworkError(at) == [cls |-> "TypeError", status |-> 0, at |-> at]

\* An error thrown by a user hook (onSessionSuccess, transformSessionMetadata).
HookError == [cls |-> "Error", status |-> 0, at |-> 0]

WristbandError(code, originalError) ==
    [cls |-> "WristbandError", code |-> code, originalError |-> originalError]

null == [cls |-> "null", code |-> "", originalError |-> NoCause]

isHttpStatusError(error, statusCode) ==
    error.cls = "ApiError" /\ error.status = statusCode

isUnauthorizedError(error) == isHttpStatusError(error, 401)

\* Mutant: the range test is inverted, client errors count as retryable.
is4xxError_Inverted(error) ==
    /\ error.cls = "ApiError"
    /\ error.status # 0
    /\ error.status >= 500

is4xxError(error) ==
    /\ error.cls = "ApiError"
    /\ error.status # 0
    /\ error.status >= 400 /\ error.status < 500

\* ------------------------------------------------------------ environment
\* Statuses with which an endpoint may answer a failed call.
ErrorStatuses == {401, 403, 503}

HttpErrors(at) == {ApiError(s, at) : s \in ErrorStatuses} \cup {NetworkError(at)}

UserIds == {<<>>, <<" ">>, <<"u", "1">>}
TenantIds == {<<" ">>, <<"t", "1">>}
RawMetadatas == {[role |-> "admin"]}

\* Bodies of a 2xx session response: each field present or absent.
SessionDatas ==
    LET withUser == {[userId |-> u] : u \in UserIds} \cup {<<>>}
        addTenant(d) == {d @@ [tenantId |-> t] : t \in TenantIds} \cup {d}
        addMeta(d) == {d @@ [metadata |-> m] : m \in RawMetadatas} \cup {d}
    IN UNION {UNION {addMeta(d2) : d2 \in addTenant(d1)} : d1 \in withUser}

Tokens == {<<" ">>, <<"a">>, <<"b">>}

\* ---------------------------------------------------------------- state
VARIABLES
    props,                 \* the provider's props and its root (fixed at mount)
    isAuthenticated, isLoading, authError, userId, tenantId, metadata,
    accessToken, accessTokenExpiresAt,
    rendered,              \* state values seen by the latest render
    tokenRequestRef,       \* id of the fetch the ref points to, 0 = null
    fetches,               \* token fetches started so far
    calls,                 \* getToken() invocations so far
    session,               \* the fetchSession() run of the mount effect
    href,                  \* window.location.href
    navigations,           \* assignments to window.location.href
    now,                   \* Date.now()
    clears,                \* the clearToken()/clearAuthData() calls so far
    updates,               \* number of updateMetadata() calls so far
    window,                \* the window global that the login URL resolver reads
    resolutions            \* the resolveAuthProviderLoginUrl() calls so far

stateVars == <<isAuthenticated, isLoading, authError, userId, tenantId, metadata,
               accessToken, accessTokenExpiresAt>>
tokenVars == <<tokenRequestRef, fetches, calls>>
vars == <<props, stateVars, rendered, tokenVars, session, href, navigations,
          now, clears, updates, window, resolutions>>

\* ------------------------------------------------------------ login URL
\* A URL is its origin ("" when the URL is relative), its path, the list of its
\* query parameters with their decoded values, and its fragment. A string whose
\* characters matter (a parameter value, window.location.href) is a sequence of
\* pieces: a character that encodeURI escapes is a piece of its own, and a run
\* of characters that encodeURI leaves alone is one piece.
CurrentPage == [origin |-> "https://app.example.com", path |-> "/x",
                params |-> <<>>, hash |-> ""]
LoginUrl == [origin |-> "", path |-> "/api/auth/login", params |-> <<>>,
             hash |-> ""]

\* The browser's window showing CurrentPage, and the missing window of a
\* server-side render.
BrowserWindow ==
    [defined |-> TRUE,
     location |-> [origin |-> "https://app.example.com",
                   href |-> <<"https://app.example.com/x">>]]
NoWindow == [defined |-> FALSE, location |-> [origin |-> "", href |-> <<>>]]

\* encodeURI: "%" and "|" are escaped, the other pieces are kept.
EncodedPiece(piece) ==
    IF piece = "%" THEN <<"%", "25">>
    ELSE IF piece = "|" THEN <<"%", "7C">>
    ELSE <<piece>>

RECURSIVE encodeURI(_)
encodeURI(str) ==
    IF str = <<>> THEN <<>> ELSE EncodedPiece(Head(str)) \o encodeURI(Tail(str))

\* A loginUrl argument that the URL parser rejects, or that is blank, is kept
\* as its text.
IsText(loginUrl) == "text" \in DOMAIN loginUrl

\* new URL(url, base): a relative URL takes the origin of the base.
URL(url, base) == IF url.origin = "" THEN [url EXCEPT !.origin = base] ELSE url

HasParam(url, key) == \E i \in 1..Len(url.params) : url.params[i].key = key

\* Throws for a blank or unparsable loginUrl, returns it untouched without a
\* window, and otherwise appends return_url=encodeURI(window.location.href)
\* unless the URL already has a return_url.
resolveAuthProviderLoginUrl(loginUrl) ==
    IF IsText(loginUrl) /\ trim(loginUrl.text) = <<>>
    THEN WristbandError("INVALID_LOGIN_URL", NoCause)
    ELSE IF ~window.defined THEN loginUrl
    ELSE IF IsText(loginUrl) THEN WristbandError("INVALID_LOGIN_URL", NoCause)
    ELSE LET resolvedUrl == URL(loginUrl, window.location.origin)
         IN IF ~HasParam(resolvedUrl, "return_url")
            THEN [resolvedUrl EXCEPT !.params =
                     Append(@, [key |-> "return_url",
                                value |-> encodeURI(window.location.href)])]
            ELSE resolvedUrl

\* useMemo: resolved once from the props.
resolvedLoginUrl == resolveAuthProviderLoginUrl(props.loginUrl)
validatedTokenUrl == props.tokenUrl

\* ------------------------------------------------------------------ props
TokenUrls == {<<>>, <<" ">>, <<"/", "t">>}

Props ==
    [loginUrl : {LoginUrl},
     tokenUrl : TokenUrls,
     disableRedirectOnUnauthenticated : BOOLEAN,
     onSessionSuccess : BOOLEAN,            \* hook configured or not
     transformSessionMetadata : BOOLEAN,    \* hook configured or not
     batchedUpdates : BOOLEAN]              \* the root batches state updates

\* The transform the application configures, when it configures one.
TransformFn(rawMetadata) ==
    IF "role" \in DOMAIN rawMetadata THEN [name |-> rawMetadata.role] ELSE <<>>

\* ------------------------------------------------------------------- init
\* authStatus, derived on every render from two flags.
AuthStatusOf(loading, authenticated) ==
    IF loading THEN "LOADING"
    ELSE IF authenticated THEN "AUTHENTICATED" ELSE "UNAUTHENTICATED"

authStatus == AuthStatusOf(isLoading, isAuthenticated)

CurrentState ==
    [isAuthenticated |-> isAuthenticated, isLoading |-> isLoading,
     authError |-> authError, userId |-> userId, tenantId |-> tenantId,
     metadata |-> metadata, accessToken |-> accessToken,
     accessTokenExpiresAt |-> accessTokenExpiresAt]

Init ==
    /\ props \in Props
    /\ isAuthenticated = FALSE
    /\ isLoading = TRUE
    /\ authError = null
    /\ userId = <<>>
    /\ tenantId = <<>>
    /\ metadata = <<>>
    /\ accessToken = <<>>
    /\ accessTokenExpiresAt = 0
    /\ rendered = CurrentState
    /\ tokenRequestRef = 0
    /\ fetches = <<>>
    /\ calls = <<>>
    /\ session = [pc |-> "mounted", attempt |-> 0, log |-> <<>>,
                  responses |-> 0, data |-> <<>>, hookCalls |-> 0,
                  caught |-> <<>>, lastError |-> null, thrown |-> null,
                  flushed |-> <<>>]
    /\ href = CurrentPage
    /\ navigations = 0
    /\ now = 0
    /\ clears = <<>>
    /\ updates = 0
    /\ window = BrowserWindow
    /\ resolutions = <<>>

\* ------------------------------------------------------ session bootstrap
\* session is the run of fetchSession(): pc is where it is suspended or how it
\* ended, attempt the loop counter, data the body of the latest 2xx response,
\* lastError and thrown the function's lastError and the error it rejected
\* with. log lists its session-endpoint calls and retry delays in order,
\* caught the errors its catch block has seen, and flushed the states that were
\* rendered after each single state update of its final commit (none when the
\* root batches the updates).
Count(seq, x) == Cardinality({i \in DOMAIN seq : seq[i] = x})

sessionCalls == Count(session.log, "call")
sessionDelays == Count(session.log, "delay")

\* One setState call: the state variable it sets and the value.
SetState(field, value) == [field |-> field, value |-> value]

\* The states after each of the setState calls `setStates`, made in that order
\* from `state`.
RECURSIVE StatesAfter(_, _)
StatesAfter(state, setStates) ==
    IF setStates = <<>> THEN <<>>
    ELSE LET next == [state EXCEPT ![Head(setStates).field] = Head(setStates).value]
         IN <<next>> \o StatesAfter(next, Tail(setStates))

\* What an unbatched root renders during those calls, one render per call.
Flushed(setStates) ==
    IF props.batchedUpdates THEN <<>> ELSE StatesAfter(CurrentState, setStates)

\* The latest render after those calls.
RenderedAfter(setStates) ==
    IF props.batchedUpdates \/ setStates = <<>> THEN rendered
    ELSE LET states == StatesAfter(CurrentState, setStates)
         IN states[Len(states)]

\* setAuthError(lastError); setIsAuthenticated(false); setIsLoading(false)
FailureUpdates(lastError) ==
    <<SetState("authError", lastError), SetState("isAuthenticated", FALSE),
      SetState("isLoading", FALSE)>>

\* Mutant: setIsAuthenticated(true) comes before the ids are set.
SuccessUpdates_AuthFirst(data) ==
    <<SetState("isAuthenticated", TRUE), SetState("tenantId", data.tenantId),
      SetState("userId", data.userId), SetState("isLoading", FALSE),
      SetState("authError", null)>>

\* setMetadata(...) when the response has metadata, then setTenantId,
\* setUserId, setIsAuthenticated(true), setIsLoading(false), setAuthError(null)
SuccessUpdates(data) ==
    (IF "metadata" \in DOMAIN data
     THEN <<SetState("metadata", IF props.transformSessionMetadata
                                 THEN TransformFn(data.metadata)
                                 ELSE data.metadata)>>
     ELSE <<>>)
    \o <<SetState("tenantId", data.tenantId), SetState("userId", data.userId),
         SetState("isAuthenticated", TRUE), SetState("isLoading", FALSE),
         SetState("authError", null)>>

\* Mutant: failures other than a 401 navigate to the logout endpoint.
SessionFinish_ToLogout(s, lastError) ==
    IF props.disableRedirectOnUnauthenticated
    THEN /\ authError' = lastError
         /\ isAuthenticated' = FALSE
         /\ isLoading' = FALSE
         /\ session' = [s EXCEPT !.pc = "failed", !.lastError = lastError,
                                 !.flushed = Flushed(FailureUpdates(lastError))]
         /\ rendered' = RenderedAfter(FailureUpdates(lastError))
         /\ UNCHANGED <<userId, tenantId, metadata, href, navigations>>
    ELSE /\ href' = IF lastError.code = "UNAUTHENTICATED" THEN resolvedLoginUrl
                    ELSE [path |-> "/api/auth/logout", params |-> <<>>]
         /\ navigations' = navigations + 1
         /\ session' = [s EXCEPT !.pc = "redirected", !.lastError = lastError]
         /\ UNCHANGED <<isAuthenticated, isLoading, authError, userId, tenantId,
                        metadata, rendered>>

\* Mutant: the failure is committed without its error.
SessionFinish_NullError(s, lastError) ==
    IF props.disableRedirectOnUnauthenticated
    THEN /\ authError' = null
         /\ isAuthenticated' = FALSE
         /\ isLoading' = FALSE
         /\ session' = [s EXCEPT !.pc = "failed", !.lastError = lastError,
                                 !.flushed = Flushed(FailureUpdates(null))]
         /\ rendered' = RenderedAfter(FailureUpdates(null))
         /\ UNCHANGED <<userId, tenantId, metadata, href, navigations>>
    ELSE /\ href' = resolvedLoginUrl
         /\ navigations' = navigations + 1
         /\ session' = [s EXCEPT !.pc = "redirected", !.lastError = lastError]
         /\ UNCHANGED <<isAuthenticated, isLoading, authError, userId, tenantId,
                        metadata, rendered>>

\* Mutant: with the redirect enabled the failure is committed and navigated.
SessionFinish_CommitAndNavigate(s, lastError) ==
    IF props.disableRedirectOnUnauthenticated
    THEN /\ authError' = lastError
         /\ isAuthenticated' = FALSE
         /\ isLoading' = FALSE
         /\ session' = [s EXCEPT !.pc = "failed", !.lastError = lastError,
                                 !.flushed = Flushed(FailureUpdates(lastError))]
         /\ rendered' = RenderedAfter(FailureUpdates(lastError))
         /\ UNCHANGED <<userId, tenantId, metadata, href, navigations>>
    ELSE /\ authError' = lastError
         /\ isAuthenticated' = FALSE
         /\ isLoading' = FALSE
         /\ href' = resolvedLoginUrl
         /\ navigations' = navigations + 1
         /\ session' = [s EXCEPT !.pc = "redirected", !.lastError = lastError]
         /\ UNCHANGED <<userId, tenantId, metadata, rendered>>

\* The part of fetchSession after the retry loop, reached by `break`.
SessionFinish(s, lastError) ==
    IF props.disableRedirectOnUnauthenticated
    THEN /\ authError' = lastError
         /\ isAuthenticated' = FALSE
         /\ isLoading' = FALSE
         /\ session' = [s EXCEPT !.pc = "failed", !.lastError = lastError,
                                 !.flushed = Flushed(FailureUpdates(lastError))]
         /\ rendered' = RenderedAfter(FailureUpdates(lastError))
         /\ UNCHANGED <<userId, tenantId, metadata, href, navigations>>
    ELSE /\ href' = resolvedLoginUrl
         /\ navigations' = navigations + 1
         /\ session' = [s EXCEPT !.pc = "redirected", !.lastError = lastError]
         /\ UNCHANGED <<isAuthenticated, isLoading, authError, userId, tenantId,
                        metadata, rendered>>

\* Mutant: the catch block does not single out WristbandError.
sessionBubblesUp_Never(error) == FALSE

\* error instanceof WristbandError: the catch block throws it again.
sessionBubblesUp(error) == error.cls = "WristbandError"

\* Mutant: the loop gives up one attempt early.
sessionLastAttempt_OffByOne(attempt) == attempt = MAX_API_ATTEMPTS - 1

\* attempt === MAX_API_ATTEMPTS in the catch block of fetchSession.
sessionLastAttempt(attempt) == attempt = MAX_API_ATTEMPTS

\* The catch block of the retry loop, for `error` caught in attempt s.attempt.
SessionCatch(s0, error) ==
    LET s == [s0 EXCEPT !.caught = Append(@, error)]
    IN IF sessionBubblesUp(error)
       THEN /\ session' = [s EXCEPT !.pc = "threw", !.thrown = error]
            /\ UNCHANGED <<isAuthenticated, isLoading, authError, userId,
                           tenantId, metadata, rendered, href, navigations>>
       ELSE IF isUnauthorizedError(error)
       THEN SessionFinish(s, WristbandError("UNAUTHENTICATED", error))
       ELSE IF is4xxError(error)
       THEN SessionFinish(s, WristbandError("SESSION_FETCH_FAILED", error))
       ELSE IF sessionLastAttempt(s.attempt)
       THEN SessionFinish(s, WristbandError("SESSION_FETCH_FAILED", error))
       ELSE /\ session' = [s EXCEPT !.pc = "delay", !.log = Append(@, "delay")]
            /\ UNCHANGED <<isAuthenticated, isLoading, authError, userId,
                           tenantId, metadata, rendered, href, navigations>>

\* Mutant: the raw metadata is stored also when a transform is configured.
SessionCommit_NoTransform(s, data, transformThrows) ==
    IF "metadata" \in DOMAIN data /\ props.transformSessionMetadata /\ transformThrows
    THEN SessionCatch(s, HookError)
    ELSE /\ metadata' = IF "metadata" \in DOMAIN data THEN data.metadata
                        ELSE metadata
         /\ tenantId' = data.tenantId
         /\ userId' = data.userId
         /\ isAuthenticated' = TRUE
         /\ isLoading' = FALSE
         /\ authError' = null
         /\ session' = [s EXCEPT !.pc = "authenticated"]
         /\ UNCHANGED <<rendered, href, navigations>>

\* Mutant: the commit leaves out setIsLoading(false).
SessionCommit_StillLoading(s, data, transformThrows) ==
    IF "metadata" \in DOMAIN data /\ props.transformSessionMetadata /\ transformThrows
    THEN SessionCatch(s, HookError)
    ELSE /\ metadata' = IF "metadata" \in DOMAIN data
                        THEN IF props.transformSessionMetadata
                             THEN TransformFn(data.metadata)
                             ELSE data.metadata
                        ELSE metadata
         /\ tenantId' = data.tenantId
         /\ userId' = data.userId
         /\ isAuthenticated' = TRUE
         /\ authError' = null
         /\ session' = [s EXCEPT !.pc = "authenticated"]
         /\ UNCHANGED <<isLoading, rendered, href, navigations>>

\* The state updates of a successful attempt; transformThrows: the configured
\* transformSessionMetadata throws on this metadata.
SessionCommit(s, data, transformThrows) ==
    IF "metadata" \in DOMAIN data /\ props.transformSessionMetadata /\ transformThrows
    THEN SessionCatch(s, HookError)
    ELSE /\ metadata' = IF "metadata" \in DOMAIN data
                        THEN IF props.transformSessionMetadata
                             THEN TransformFn(data.metadata)
                             ELSE data.metadata
                        ELSE metadata
         /\ tenantId' = data.tenantId
         /\ userId' = data.userId
         /\ isAuthenticated' = TRUE
         /\ isLoading' = FALSE
         /\ authError' = null
         /\ session' = [s EXCEPT !.pc = "authenticated",
                                 !.flushed = Flushed(SuccessUpdates(data))]
         /\ rendered' = RenderedAfter(SuccessUpdates(data))
         /\ UNCHANGED <<href, navigations>>

\* Mutant: the effect has no dependency list and runs again after a bootstrap.
FetchSessionStart_Rerun ==
    /\ session.pc \in {"mounted", "authenticated", "failed"}
    /\ session' = [session EXCEPT !.pc = "get", !.attempt = 1,
                                  !.log = Append(@, "call")]
    /\ UNCHANGED <<props, window, resolutions,
                   stateVars, rendered, tokenVars, href, navigations,
                   now, clears, updates>>

\* The mount effect runs: fetchSession() sends the first session request.
FetchSessionStart ==
    /\ session.pc = "mounted"
    /\ session' = [session EXCEPT !.pc = "get", !.attempt = 1,
                                  !.log = Append(@, "call")]
    /\ UNCHANGED <<props, window, resolutions,
                   stateVars, rendered, tokenVars, href, navigations,
                   now, clears, updates>>

\* Mutant: onSessionSuccess is called but its result is not awaited.
SessionResponse_HookNotAwaited(data, transformThrows) ==
    /\ session.pc = "get"
    /\ LET s == [session EXCEPT !.data = data, !.responses = @ + 1]
       IN IF Blank(data, "userId") \/ Blank(data, "tenantId")
          THEN SessionCatch(s, WristbandError("INVALID_SESSION_RESPONSE", NoCause))
          ELSE IF props.onSessionSuccess
          THEN SessionCommit([s EXCEPT !.hookCalls = @ + 1], data, transformThrows)
          ELSE SessionCommit(s, data, transformThrows)
    /\ UNCHANGED <<props, window, resolutions,
                   accessToken, accessTokenExpiresAt, tokenVars, now,
                   clears, updates>>

\* apiClient.get resolves with a 2xx response whose body is `data`.
SessionResponse(data, transformThrows) ==
    /\ session.pc = "get"
    /\ LET s == [session EXCEPT !.data = data, !.responses = @ + 1]
       IN IF Blank(data, "userId") \/ Blank(data, "tenantId")
          THEN SessionCatch(s, WristbandError("INVALID_SESSION_RESPONSE", NoCause))
          ELSE IF props.onSessionSuccess
          THEN /\ session' = [s EXCEPT !.pc = "hook", !.hookCalls = @ + 1]
               /\ UNCHANGED <<isAuthenticated, isLoading, authError, userId,
                              tenantId, metadata, rendered, href, navigations>>
          ELSE SessionCommit(s, data, transformThrows)
    /\ UNCHANGED <<props, window, resolutions,
                   accessToken, accessTokenExpiresAt, tokenVars, now,
                   clears, updates>>

\* apiClient.get rejects: non-2xx status or network failure.
SessionError(error) ==
    /\ session.pc = "get"
    /\ SessionCatch(session, error)
    /\ UNCHANGED <<props, window, resolutions,
                   accessToken, accessTokenExpiresAt, tokenVars, now,
                   clears, updates>>

\* await Promise.resolve(onSessionSuccess(response.data)) settles.
SessionHookSettles(hookThrows, transformThrows) ==
    /\ session.pc = "hook"
    /\ IF hookThrows
       THEN SessionCatch(session, HookError)
       ELSE SessionCommit(session, session.data, transformThrows)
    /\ UNCHANGED <<props, window, resolutions,
                   accessToken, accessTokenExpiresAt, tokenVars, now,
                   clears, updates>>

\* await delay(API_RETRY_DELAY_MS) ends: the loop sends the next request.
SessionDelayElapsed ==
    /\ session.pc = "delay"
    /\ session' = [session EXCEPT !.pc = "get", !.attempt = @ + 1,
                                  !.log = Append(@, "call")]
    /\ UNCHANGED <<props, window, resolutions,
                   stateVars, rendered, tokenVars, href, navigations,
                   now, clears, updates>>

\* ------------------------------------------------------------ token engine
\* expiresAt values a token response may carry, relative to the clock.
ExpiresAts == {-1, now + 29000, now + 30000, now + 31000, now + 32000}

\* Bodies of a 2xx token response: each field present or absent.
TokenDatas ==
    LET withToken == {[accessToken |-> t] : t \in Tokens} \cup {<<>>}
    IN UNION {{d @@ [expiresAt |-> e] : e \in ExpiresAts} \cup {d} : d \in withToken}

\* A fetch is one run of the tokenRequest function of getToken: pc is where
\* it is suspended ("get", "delay") or "done", attempt its loop counter,
\* lastError its lastError, log its token-endpoint calls and retry delays in
\* order, responses and data the number of 2xx responses it got and the body
\* of the latest, and ok/value/error what its promise settled with.
PendingFetches == {f \in DOMAIN fetches : fetches[f].pc # "done"}

fetchCalls(f) == Count(fetches[f].log, "call")
fetchDelays(f) == Count(fetches[f].log, "delay")

\* Requests sent to the token endpoint so far.
RECURSIVE SumCalls(_)
SumCalls(fs) ==
    IF fs = <<>> THEN 0 ELSE Count(Head(fs).log, "call") + SumCalls(Tail(fs))

tokenEndpointCalls == SumCalls(fetches)

\* Mutant: the buffer comparison is not strict.
CachedTokenValid_Inclusive(token, expiresAt, time) ==
    token # <<>> /\ expiresAt >= time + TOKEN_EXPIRATION_BUFFER_TIME_MS

\* The cache test of getToken, on the values of the closure that is called.
CachedTokenValid(token, expiresAt, time) ==
    token # <<>> /\ expiresAt > time + TOKEN_EXPIRATION_BUFFER_TIME_MS

\* A getToken() invocation. kind: it threw on a precondition ("throw"), was
\* answered from the closure's cache ("cache") or returned the promise of
\* fetch `fetch` ("fetch"), which it started itself iff `started`. settled, ok,
\* value, error: what the returned promise settled with. seen: what the call
\* read when it was made (its closure, the clock, the ref); stored: the state
\* values at that moment; pending, clears: the fetches then pending and the
\* clearToken()/clearAuthData() calls made before it.
Call(kind, fetch, started, settled, ok, value, error) ==
    [kind |-> kind, fetch |-> fetch, started |-> started, settled |-> settled,
     ok |-> ok, value |-> value, error |-> error,
     seen |-> [isAuthenticated |-> rendered.isAuthenticated,
               accessToken |-> rendered.accessToken,
               accessTokenExpiresAt |-> rendered.accessTokenExpiresAt,
               now |-> now, ref |-> tokenRequestRef],
     stored |-> [isAuthenticated |-> isAuthenticated,
                 accessToken |-> accessToken,
                 accessTokenExpiresAt |-> accessTokenExpiresAt],
     pending |-> PendingFetches, clears |-> clears]

\* The tokenRequest function runs up to its first await: one request is sent.
NewFetch ==
    [pc |-> "get", attempt |-> 1, log |-> <<"call">>, responses |-> 0,
     data |-> <<>>, lastError |-> null, ok |-> FALSE, value |-> <<>>,
     error |-> null]

\* Mutant: a call never returns the promise of the request in flight.
GetTokenBranch_NoJoin ==
    IF validatedTokenUrl = <<>> \/ trim(validatedTokenUrl) = <<>> THEN "noUrl"
    ELSE IF ~rendered.isAuthenticated THEN "unauthenticated"
    ELSE IF CachedTokenValid(rendered.accessToken, rendered.accessTokenExpiresAt, now)
    THEN "cache"
    ELSE "fetch"

\* Mutant: the authentication test comes before the token URL test.
GetTokenBranch_AuthFirst ==
    IF ~rendered.isAuthenticated THEN "unauthenticated"
    ELSE IF validatedTokenUrl = <<>> \/ trim(validatedTokenUrl) = <<>> THEN "noUrl"
    ELSE IF CachedTokenValid(rendered.accessToken, rendered.accessTokenExpiresAt, now)
    THEN "cache"
    ELSE IF tokenRequestRef # 0 THEN "join"
    ELSE "fetch"

\* Which branch a getToken() call takes.
GetTokenBranch ==
    IF validatedTokenUrl = <<>> \/ trim(validatedTokenUrl) = <<>> THEN "noUrl"
    ELSE IF ~rendered.isAuthenticated THEN "unauthenticated"
    ELSE IF CachedTokenValid(rendered.accessToken, rendered.accessTokenExpiresAt, now)
    THEN "cache"
    ELSE IF tokenRequestRef # 0 THEN "join"
    ELSE "fetch"

getToken ==
    /\ Len(calls) < MaxCalls
    /\ GetTokenBranch = "fetch" => Len(fetches) < MaxFetches
    /\ CASE GetTokenBranch = "noUrl" ->
              /\ calls' = Append(calls, Call("throw", 0, FALSE, TRUE, FALSE, <<>>,
                                   WristbandError("INVALID_TOKEN_URL", NoCause)))
              /\ UNCHANGED <<tokenRequestRef, fetches>>
         [] GetTokenBranch = "unauthenticated" ->
              /\ calls' = Append(calls, Call("throw", 0, FALSE, TRUE, FALSE, <<>>,
                                   WristbandError("UNAUTHENTICATED", NoCause)))
              /\ UNCHANGED <<tokenRequestRef, fetches>>
         [] GetTokenBranch = "cache" ->
              /\ calls' = Append(calls, Call("cache", 0, FALSE, TRUE, TRUE,
                                   rendered.accessToken, null))
              /\ UNCHANGED <<tokenRequestRef, fetches>>
         [] GetTokenBranch = "join" ->
              /\ calls' = Append(calls,
                     LET f == fetches[tokenRequestRef]
                     IN Call("fetch", tokenRequestRef, FALSE, f.pc = "done",
                             f.ok, f.value, f.error))
              /\ UNCHANGED <<tokenRequestRef, fetches>>
         [] GetTokenBranch = "fetch" ->
              /\ fetches' = Append(fetches, NewFetch)
              /\ tokenRequestRef' = Len(fetches) + 1
              /\ calls' = Append(calls, Call("fetch", Len(fetches) + 1, TRUE, FALSE,
                                   FALSE, <<>>, null))
    /\ UNCHANGED <<props, window, resolutions,
                   stateVars, rendered, session, href, navigations, now,
                   clears, updates>>

\* Mutant: the finally block leaves the in-flight marker as it is.
TokenSettle_KeepsMarker(f, s, lastError, ok, value, error) ==
    /\ fetches' = [fetches EXCEPT ![f] =
                     [s EXCEPT !.pc = "done", !.lastError = lastError, !.ok = ok,
                               !.value = value, !.error = error]]
    /\ UNCHANGED tokenRequestRef
    /\ calls' = [i \in DOMAIN calls |->
                   IF calls[i].kind = "fetch" /\ calls[i].fetch = f
                   THEN [calls[i] EXCEPT !.settled = TRUE, !.ok = ok,
                                         !.value = value, !.error = error]
                   ELSE calls[i]]

\* Mutant: only the call that started the fetch receives its outcome.
TokenSettle_OnlyStarter(f, s, lastError, ok, value, error) ==
    /\ fetches' = [fetches EXCEPT ![f] =
                     [s EXCEPT !.pc = "done", !.lastError = lastError, !.ok = ok,
                               !.value = value, !.error = error]]
    /\ tokenRequestRef' = 0
    /\ calls' = [i \in DOMAIN calls |->
                   IF calls[i].kind = "fetch" /\ calls[i].fetch = f
                      /\ calls[i].started
                   THEN [calls[i] EXCEPT !.settled = TRUE, !.ok = ok,
                                         !.value = value, !.error = error]
                   ELSE calls[i]]

\* The token request promise of fetch f settles; its finally block has run.
TokenSettle(f, s, lastError, ok, value, error) ==
    /\ fetches' = [fetches EXCEPT ![f] =
                     [s EXCEPT !.pc = "done", !.lastError = lastError, !.ok = ok,
                               !.value = value, !.error = error]]
    /\ tokenRequestRef' = 0
    /\ calls' = [i \in DOMAIN calls |->
                   IF calls[i].kind = "fetch" /\ calls[i].fetch = f
                   THEN [calls[i] EXCEPT !.settled = TRUE, !.ok = ok,
                                         !.value = value, !.error = error]
                   ELSE calls[i]]

\* Mutant: a negative expiresAt passes the validation.
InvalidTokenResponse_AllowsNegative(data) ==
    \/ Blank(data, "accessToken")
    \/ "expiresAt" \notin DOMAIN data

\* The two validations of a token response body: each throws
\* INVALID_TOKEN_RESPONSE. A field that is undefined or null is absent.
InvalidTokenResponse(data) ==
    \/ Blank(data, "accessToken")
    \/ "expiresAt" \notin DOMAIN data
    \/ data.expiresAt < 0

\* apiClient.get of fetch f resolves with a 2xx response whose body is `data`.
TokenResponse(f, data) ==
    /\ f \in DOMAIN fetches
    /\ fetches[f].pc = "get"
    /\ LET s == [fetches[f] EXCEPT !.data = data, !.responses = @ + 1]
       IN IF InvalidTokenResponse(data)
          THEN LET error == WristbandError("INVALID_TOKEN_RESPONSE", NoCause)
               IN /\ TokenSettle(f, s, error, FALSE, <<>>, error)
                  /\ UNCHANGED <<accessToken, accessTokenExpiresAt>>
          ELSE /\ accessToken' = data.accessToken
               /\ accessTokenExpiresAt' = data.expiresAt
               /\ TokenSettle(f, s, s.lastError, TRUE, data.accessToken, null)
    /\ UNCHANGED <<props, window, resolutions,
                   isAuthenticated, isLoading, authError, userId, tenantId,
                   metadata, rendered, session, href, navigations, now, clears,
                   updates>>

\* Mutant: the 401 branch leaves the cached token in place.
TokenUnauthorized_KeepsCache(f, error) ==
    /\ UNCHANGED <<accessToken, accessTokenExpiresAt>>
    /\ TokenSettle(f, fetches[f], error, FALSE, <<>>,
                   WristbandError("UNAUTHENTICATED", error))

\* The 401 branch of the catch block of fetch f.
TokenUnauthorized(f, error) ==
    /\ accessToken' = <<>>
    /\ accessTokenExpiresAt' = 0
    /\ TokenSettle(f, fetches[f], error, FALSE, <<>>,
                   WristbandError("UNAUTHENTICATED", error))

\* Mutant: the loop gives up one attempt early.
tokenLastAttempt_OffByOne(attempt) == attempt = MAX_API_ATTEMPTS - 1

\* attempt === MAX_API_ATTEMPTS in the catch block of the token request.
tokenLastAttempt(attempt) == attempt = MAX_API_ATTEMPTS

\* Mutant: a 401 from the token endpoint also ends the session.
TokenError_401LogsOut(f, error) ==
    /\ f \in DOMAIN fetches
    /\ fetches[f].pc = "get"
    /\ IF isUnauthorizedError(error)
       THEN /\ TokenUnauthorized(f, error)
            /\ isAuthenticated' = FALSE
       ELSE IF is4xxError(error) \/ tokenLastAttempt(fetches[f].attempt)
       THEN /\ TokenSettle(f, fetches[f], error, FALSE, <<>>,
                           WristbandError("TOKEN_FETCH_FAILED", error))
            /\ UNCHANGED <<accessToken, accessTokenExpiresAt, isAuthenticated>>
       ELSE /\ fetches' = [fetches EXCEPT ![f] =
                             [@ EXCEPT !.pc = "delay", !.lastError = error,
                                       !.log = Append(@, "delay")]]
            /\ UNCHANGED <<accessToken, accessTokenExpiresAt, tokenRequestRef,
                           calls, isAuthenticated>>
    /\ UNCHANGED <<props, window, resolutions,
                   isLoading, authError, userId, tenantId,
                   metadata, rendered, session, href, navigations, now, clears,
                   updates>>

\* apiClient.get of fetch f rejects with `error`.
TokenError(f, error) ==
    /\ f \in DOMAIN fetches
    /\ fetches[f].pc = "get"
    /\ IF isUnauthorizedError(error)
       THEN TokenUnauthorized(f, error)
       ELSE IF is4xxError(error) \/ tokenLastAttempt(fetches[f].attempt)
       THEN /\ TokenSettle(f, fetches[f], error, FALSE, <<>>,
                           WristbandError("TOKEN_FETCH_FAILED", error))
            /\ UNCHANGED <<accessToken, accessTokenExpiresAt>>
       ELSE /\ fetches' = [fetches EXCEPT ![f] =
                             [@ EXCEPT !.pc = "delay", !.lastError = error,
                                       !.log = Append(@, "delay")]]
            /\ UNCHANGED <<accessToken, accessTokenExpiresAt, tokenRequestRef, calls>>
    /\ UNCHANGED <<props, window, resolutions,
                   isAuthenticated, isLoading, authError, userId, tenantId,
                   metadata, rendered, session, href, navigations, now, clears,
                   updates>>

\* Mutant: a fetch whose marker was discarded gives up its retries.
TokenDelayElapsed_NeedsMarker(f) ==
    /\ f \in DOMAIN fetches
    /\ fetches[f].pc = "delay"
    /\ tokenRequestRef = f
    /\ fetches' = [fetches EXCEPT ![f] =
                     [@ EXCEPT !.pc = "get", !.attempt = @ + 1,
                               !.log = Append(@, "call")]]
    /\ UNCHANGED <<props, window, resolutions,
                   stateVars, rendered, tokenRequestRef, calls, session,
                   href, navigations, now, clears, updates>>

\* await delay(API_RETRY_DELAY_MS) of fetch f ends: the next request is sent.
TokenDelayElapsed(f) ==
    /\ f \in DOMAIN fetches
    /\ fetches[f].pc = "delay"
    /\ fetches' = [fetches EXCEPT ![f] =
                     [@ EXCEPT !.pc = "get", !.attempt = @ + 1,
                               !.log = Append(@, "call")]]
    /\ UNCHANGED <<props, window, resolutions,
                   stateVars, rendered, tokenRequestRef, calls, session,
                   href, navigations, now, clears, updates>>

\* Mutant: clearToken leaves the in-flight marker in place.
clearToken_KeepsMarker ==
    /\ Len(clears) < MaxClears
    /\ accessToken' = <<>>
    /\ accessTokenExpiresAt' = 0
    /\ clears' = Append(clears, "clearToken")
    /\ UNCHANGED <<props, window, resolutions,
                   isAuthenticated, isLoading, authError, userId, tenantId,
                   metadata, rendered, tokenRequestRef, fetches, calls, session,
                   href, navigations, now, updates>>

clearToken ==
    /\ Len(clears) < MaxClears
    /\ accessToken' = <<>>
    /\ accessTokenExpiresAt' = 0
    /\ tokenRequestRef' = 0
    /\ clears' = Append(clears, "clearToken")
    /\ UNCHANGED <<props, window, resolutions,
                   isAuthenticated, isLoading, authError, userId, tenantId,
                   metadata, rendered, fetches, calls, session, href, navigations,
                   now, updates>>

\* ------------------------------------------------------ auth state container
\* Mutant: clearAuthData does not call clearToken().
clearAuthData_KeepsToken ==
    /\ Len(clears) < MaxClears
    /\ isAuthenticated' = FALSE
    /\ isLoading' = FALSE
    /\ authError' = null
    /\ tenantId' = <<>>
    /\ userId' = <<>>
    /\ metadata' = <<>>
    /\ clears' = Append(clears, "clearAuthData")
    /\ UNCHANGED <<props, window, resolutions,
                   accessToken, accessTokenExpiresAt, tokenRequestRef,
                   rendered, fetches, calls, session, href, navigations, now,
                   updates>>

clearAuthData ==
    /\ Len(clears) < MaxClears
    /\ accessToken' = <<>>
    /\ accessTokenExpiresAt' = 0
    /\ tokenRequestRef' = 0
    /\ isAuthenticated' = FALSE
    /\ isLoading' = FALSE
    /\ authError' = null
    /\ tenantId' = <<>>
    /\ userId' = <<>>
    /\ metadata' = <<>>
    /\ clears' = Append(clears, "clearAuthData")
    /\ UNCHANGED <<props, window, resolutions,
                   rendered, fetches, calls, session, href, navigations,
                   now, updates>>

Partials == {[role |-> "user"], [plan |-> "pro"]}

\* Mutant: the new metadata replaces the old instead of being merged into it.
updateMetadata_Replaces(newMetadata) ==
    /\ updates < MaxUpdates
    /\ metadata' = newMetadata
    /\ updates' = updates + 1
    /\ UNCHANGED <<props, window, resolutions,
                   isAuthenticated, isLoading, authError, userId, tenantId,
                   accessToken, accessTokenExpiresAt, rendered, tokenVars, session,
                   href, navigations, now, clears>>

\* { ...prevData, ...newMetadata }
updateMetadata(newMetadata) ==
    /\ updates < MaxUpdates
    /\ metadata' = newMetadata @@ metadata
    /\ updates' = updates + 1
    /\ UNCHANGED <<props, window, resolutions,
                   isAuthenticated, isLoading, authError, userId, tenantId,
                   accessToken, accessTokenExpiresAt, rendered, tokenVars, session,
                   href, navigations, now, clears>>

\* React re-renders the provider: new closures see the current state.
Render ==
    /\ rendered # CurrentState
    /\ rendered' = CurrentState
    /\ UNCHANGED <<props, window, resolutions,
                   stateVars, tokenVars, session, href, navigations, now,
                   clears, updates>>

\* Time passes, one second at a time.
Tick ==
    /\ now < MaxTicks * 1000
    /\ now' = now + 1000
    /\ UNCHANGED <<props, window, resolutions,
                   stateVars, rendered, tokenVars, session, href,
                   navigations, clears, updates>>

\* ------------------------------------------------------------------ specs
\* The bootstrap under every kind of session response, with the operations
\* of the auth state container.
InitSession == Init /\ props.tokenUrl = <<"/", "t">>

NextSession ==
    \/ FetchSessionStart
    \/ \E data \in SessionDatas, transformThrows \in BOOLEAN :
          SessionResponse(data, transformThrows)
    \/ \E error \in HttpErrors(sessionCalls) : SessionError(error)
    \/ \E hookThrows \in BOOLEAN, transformThrows \in BOOLEAN :
          SessionHookSettles(hookThrows, transformThrows)
    \/ SessionDelayElapsed
    \/ clearAuthData
    \/ \E newMetadata \in Partials : updateMetadata(newMetadata)
    \/ Render

SpecSession == InitSession /\ [][NextSession]_vars

\* The bootstrap when the effect runs and every awaited promise settles: each
\* session-endpoint call is answered or fails, the onSessionSuccess hook
\* returns or throws, and every retry delay elapses. The application's own
\* calls (clearAuthData, updateMetadata) and re-renders may or may not happen.
SessionCallSettles ==
    \/ \E data \in SessionDatas, transformThrows \in BOOLEAN :
          SessionResponse(data, transformThrows)
    \/ \E error \in HttpErrors(sessionCalls) : SessionError(error)

SessionHookReturns ==
    \E hookThrows \in BOOLEAN, transformThrows \in BOOLEAN :
        SessionHookSettles(hookThrows, transformThrows)

SpecSessionFair ==
    /\ SpecSession
    /\ WF_vars(FetchSessionStart)
    /\ WF_vars(SessionCallSettles)
    /\ WF_vars(SessionHookReturns)
    /\ WF_vars(SessionDelayElapsed)

\* The token engine under every kind of token response, with a bootstrap that
\* is answered by a valid session or by a 401, in a root that batches.
InitToken ==
    /\ Init
    /\ props.disableRedirectOnUnauthenticated
    /\ ~props.onSessionSuccess
    /\ ~props.transformSessionMetadata
    /\ props.batchedUpdates

ValidSession == [userId |-> <<"u", "1">>, tenantId |-> <<"t", "1">>]

NextToken ==
    \/ FetchSessionStart
    \/ SessionResponse(ValidSession, FALSE)
    \/ SessionError(ApiError(401, sessionCalls))
    \/ getToken
    \/ \E f \in 1..MaxFetches, data \in TokenDatas : TokenResponse(f, data)
    \/ \E f \in DOMAIN fetches : \E error \in HttpErrors(fetchCalls(f)) :
          TokenError(f, error)
    \/ \E f \in 1..MaxFetches : TokenDelayElapsed(f)
    \/ clearToken
    \/ clearAuthData
    \/ Render
    \/ Tick

SpecToken == InitToken /\ [][NextToken]_vars

\* The token engine when every awaited promise of a token request settles:
\* each token-endpoint call is answered or fails and every retry delay
\* elapses. The token URL is configured, the bootstrap is answered by a valid
\* session, and the application may call getToken(), clearToken() and
\* clearAuthData() and re-render at any moment, or never.
InitTokenFair == InitToken /\ props.tokenUrl = <<"/", "t">>

FairTokenDatas == {<<>>, [accessToken |-> <<"a">>, expiresAt |-> now + 31000]}

TokenCallSettles(f) ==
    /\ f \in DOMAIN fetches
    /\ \/ \E data \in FairTokenDatas : TokenResponse(f, data)
       \/ \E error \in HttpErrors(fetchCalls(f)) : TokenError(f, error)

NextTokenFair ==
    \/ FetchSessionStart
    \/ SessionResponse(ValidSession, FALSE)
    \/ getToken
    \/ \E f \in 1..MaxFetches : TokenCallSettles(f)
    \/ \E f \in 1..MaxFetches : TokenDelayElapsed(f)
    \/ clearToken
    \/ clearAuthData
    \/ Render

SpecTokenFair ==
    /\ InitTokenFair
    /\ [][NextTokenFair]_vars
    /\ \A f \in 1..MaxFetches :
          WF_vars(TokenCallSettles(f)) /\ WF_vars(TokenDelayElapsed(f))

\* The login URL resolver applied to login URLs of every shape, in a browser on
\* pages of every shape and without a window; a second call receives what the
\* first returned, possibly after the page has changed.
MaxResolves == 2

Locations ==
    {<<"https://app.example.com/x">>,
     <<"https://app.example.com/x?q=a", "%", "20b">>,
     <<"https://app.example.com/x?q=a", "|", "b">>}

Windows ==
    {NoWindow} \cup {[BrowserWindow EXCEPT !.location.href = l] : l \in Locations}

Theme == [key |-> "theme", value |-> <<"dark">>]
Lang == [key |-> "lang", value |-> <<"en">>]
ReturnTo(page) == [key |-> "return_url", value |-> page]
OtherPage == <<"https://other-page.com/dashboard">>

LoginUrls ==
    [origin : {"", "https://auth.example.com"},
     path : {"/api/auth/login"},
     params : {<<>>, <<Theme>>, <<Theme, Lang>>, <<ReturnTo(OtherPage)>>,
               <<Theme, ReturnTo(OtherPage)>>, <<ReturnTo(<<>>), Lang>>},
     hash : {"", "#section"}]
    \cup {[text |-> <<>>], [text |-> <<" ", " ">>], [text |-> <<"/", "/">>]}

InitLoginUrl ==
    /\ props \in [loginUrl : LoginUrls, tokenUrl : {<<>>},
                  disableRedirectOnUnauthenticated : {FALSE},
                  onSessionSuccess : {FALSE},
                  transformSessionMetadata : {FALSE},
                  batchedUpdates : {TRUE}]
    /\ isAuthenticated = FALSE
    /\ isLoading = TRUE
    /\ authError = null
    /\ userId = <<>>
    /\ tenantId = <<>>
    /\ metadata = <<>>
    /\ accessToken = <<>>
    /\ accessTokenExpiresAt = 0
    /\ rendered = CurrentState
    /\ tokenRequestRef = 0
    /\ fetches = <<>>
    /\ calls = <<>>
    /\ session = [pc |-> "mounted", attempt |-> 0, log |-> <<>>,
                  responses |-> 0, data |-> <<>>, hookCalls |-> 0,
                  caught |-> <<>>, lastError |-> null, thrown |-> null,
                  flushed |-> <<>>]
    /\ href = CurrentPage
    /\ navigations = 0
    /\ now = 0
    /\ clears = <<>>
    /\ updates = 0
    /\ window \in Windows
    /\ resolutions = <<>>

\* One call of resolveAuthProviderLoginUrl: the first with the loginUrl prop,
\* a later one with the URL the call before it returned.
Resolve ==
    /\ Len(resolutions) < MaxResolves
    /\ LET loginUrl == IF resolutions = <<>> THEN props.loginUrl
                       ELSE resolutions[Len(resolutions)].returned
       IN /\ "cls" \notin DOMAIN loginUrl
          /\ resolutions' =
                Append(resolutions,
                       [loginUrl |-> loginUrl, window |-> window,
                        returned |-> resolveAuthProviderLoginUrl(loginUrl)])
    /\ UNCHANGED <<props, window, stateVars, rendered, tokenVars, session,
                   href, navigations, now, clears, updates>>

\* The user moves on to another page of the application.
Navigate ==
    /\ window.defined
    /\ \E l \in Locations \ {window.location.href} :
          window' = [window EXCEPT !.location.href = l]
    /\ UNCHANGED <<props, resolutions, stateVars, rendered, tokenVars, session,
                   href, navigations, now, clears, updates>>

NextLoginUrl ==
    \/ Resolve
    \/ Navigate

SpecLoginUrl == InitLoginUrl /\ [][NextLoginUrl]_vars

\* ================================================================= claims
\* Predicates of the claims, stated without the operators of the model.
ValidIds(data) ==
    /\ "userId" \in DOMAIN data /\ \E i \in DOMAIN data.userId : data.userId[i] # " "
    /\ "tenantId" \in DOMAIN data
    /\ \E i \in DOMAIN data.tenantId : data.tenantId[i] # " "

Is4xx(error) == error.cls = "ApiError" /\ error.status \in 400..499

\* A 5xx answer or a network failure.
IsTransient(error) ==
    \/ error.cls = "TypeError"
    \/ error.cls = "ApiError" /\ error.status \in 500..599

SessionEnded == session.pc \in {"authenticated", "failed", "redirected", "threw"}

\* ---------------------------------------------------------------- C3
\* The step in which the bootstrap finishes handling a 2xx response with
\* valid ids: the response arrives and no hook is awaited, or the awaited
\* onSessionSuccess settles.
HandlesValidSession ==
    \/ /\ session.pc = "get"
       /\ session'.responses = session.responses + 1
       /\ ValidIds(session'.data)
       /\ session'.pc # "hook"
    \/ /\ session.pc = "hook"
       /\ session'.pc # "hook"

C6_InvalidSessionResponse ==
    /\ (session.responses > 0 /\ ~ValidIds(session.data))
          => /\ session.pc = "threw"
             /\ session.thrown.cls = "WristbandError"
             /\ session.thrown.code = "INVALID_SESSION_RESPONSE"
             /\ session.log[Len(session.log)] = "call"
             /\ sessionCalls = session.attempt
             /\ session.attempt = 1 => sessionCalls = 1
             /\ ~isAuthenticated
    /\ session.pc = "threw" => ~ValidIds(session.data)

C6_Witness ==
    /\ session.pc = "threw"
    /\ session.thrown.code = "INVALID_SESSION_RESPONSE"
    /\ "userId" \in DOMAIN session.data /\ session.data.userId = <<" ">>
    /\ sessionCalls = 1

\* ---------------------------------------------------------------- C7
\* Every session-endpoint call so far failed with a 5xx or a network error.
AllSessionCallsTransient ==
    /\ session.responses = 0
    /\ \A i \in DOMAIN session.caught : IsTransient(session.caught[i])

\* C7: if every session-endpoint call fails with a 5xx status or a network
\* error, the bootstrap makes exactly 3 calls with one delay between
\* consecutive calls and none after the last, then fails with
\* SESSION_FETCH_FAILED.
C7_SessionRetryBound ==
    AllSessionCallsTransient =>
        /\ Len(session.caught) < 3 => ~SessionEnded
        /\ Len(session.caught) = 3 =>
              /\ session.pc \in {"failed", "redirected"}
              /\ session.log = <<"call", "delay", "call", "delay", "call">>
              /\ session.lastError.code = "SESSION_FETCH_FAILED"
              /\ session.lastError.originalError = session.caught[3]
        /\ Len(session.caught) <= 3

C7_Witness ==
    /\ AllSessionCallsTransient
    /\ Len(session.caught) = 3
    /\ session.pc = "failed"
    /\ authError.code = "SESSION_FETCH_FAILED"

\* ---------------------------------------------------------------- C8
\* C8: a 4xx failure of a session-endpoint call, on whichever attempt, ends
\* the bootstrap with no further call: 401 is classified UNAUTHENTICATED, any
\* other 4xx SESSION_FETCH_FAILED; a 401 on the first attempt means 1 call.
C8_Session4xxStops ==
    \A i \in DOMAIN session.caught :
        Is4xx(session.caught[i]) =>
            /\ i = Len(session.caught)
            /\ session.pc \in {"failed", "redirected"}
            /\ sessionCalls = session.caught[i].at
            /\ session.log[Len(session.log)] = "call"
            /\ session.lastError.cls = "WristbandError"
            /\ session.lastError.originalError = session.caught[i]
            /\ session.lastError.code =
                  IF session.caught[i].status = 401 THEN "UNAUTHENTICATED"
                  ELSE "SESSION_FETCH_FAILED"
            /\ (i = 1 /\ session.caught[i].status = 401) => sessionCalls = 1

C8_Witness ==
    /\ Len(session.caught) = 2
    /\ session.caught[2].cls = "ApiError" /\ session.caught[2].status = 403
    /\ sessionCalls = 2
    /\ session.pc = "redirected"

\* ---------------------------------------------------------------- C1
\* Call j was made by an authenticated user's closure with no valid token.
MissesCache(c) ==
    /\ c.kind # "throw"
    /\ c.seen.isAuthenticated
    /\ ~(c.seen.accessToken # <<>>
         /\ c.seen.accessTokenExpiresAt > c.seen.now + 30000)

\* C1: when a getToken() call starts a fetch with none in flight, every
\* further cache-missing call made before that fetch settles (with no
\* clearToken()/clearAuthData() in between) starts no fetch and sends no
\* request of its own, and all of them settle with the same value; the fetch
\* costs one token-endpoint call when its first call succeeds.
C1_ConcurrentCallsShareOneFetch ==
    \A i \in DOMAIN calls : \A j \in DOMAIN calls :
        (/\ i < j
         /\ calls[i].started /\ calls[i].pending = {}
         /\ calls[i].fetch \in calls[j].pending
         /\ calls[j].clears = calls[i].clears
         /\ MissesCache(calls[j]))
        => /\ calls[j].kind = "fetch"
           /\ ~calls[j].started
           /\ calls[j].fetch = calls[i].fetch
           /\ calls[j].settled = calls[i].settled
           /\ calls[j].ok = calls[i].ok
           /\ calls[j].value = calls[i].value
           /\ calls[j].error = calls[i].error
           /\ (calls[i].ok /\ fetches[calls[i].fetch].lastError = null)
                 => fetches[calls[i].fetch].log = <<"call">>

C1_Witness ==
    /\ Len(calls) = 2
    /\ calls[1].started /\ calls[1].pending = {}
    /\ calls[2].pending = {1} /\ calls[2].clears = calls[1].clears
    /\ calls[1].settled /\ calls[1].ok /\ calls[2].ok
    /\ calls[1].value = <<"a">> /\ calls[2].value = <<"a">>
    /\ tokenEndpointCalls = 1

\* ---------------------------------------------------------------- C2
\* C2: once a fetch has stored a token whose expiresAt is more than 30000 ms
\* ahead, every later getToken() call made while the user is authenticated,
\* the token is outside the buffer and nothing has cleared it returns that
\* token and sends no request.
C2_StoredTokenServed ==
    \A j \in DOMAIN calls :
        (/\ calls[j].seen.isAuthenticated
         /\ calls[j].stored.isAuthenticated
         /\ calls[j].kind # "throw"
         /\ calls[j].stored.accessToken # <<>>
         /\ calls[j].stored.accessTokenExpiresAt > calls[j].seen.now + 30000)
        => /\ calls[j].kind = "cache"
           /\ calls[j].value = calls[j].stored.accessToken

\* ---------------------------------------------------------------- C4
BlankUrl(url) == \A i \in DOMAIN url : url[i] = " "

\* A getToken() call that throws on a precondition is made in this step.
GetTokenThrows ==
    /\ Len(calls') = Len(calls) + 1
    /\ calls'[Len(calls')].kind = "throw"

\* C4: getToken() fails with INVALID_TOKEN_URL when no token URL is
\* configured, whatever the auth state, and with UNAUTHENTICATED when a token
\* URL is configured and the isAuthenticated it was rendered with is false; in
\* both cases it sends no request and leaves the token cache, the in-flight
\* marker and the auth state unchanged.
C4_Preconditions ==
    /\ [](\A j \in DOMAIN calls :
            /\ BlankUrl(props.tokenUrl)
                  => /\ calls[j].kind = "throw"
                     /\ calls[j].error.code = "INVALID_TOKEN_URL"
            /\ (~BlankUrl(props.tokenUrl) /\ ~calls[j].seen.isAuthenticated)
                  => /\ calls[j].kind = "throw"
                     /\ calls[j].error.code = "UNAUTHENTICATED"
            /\ calls[j].kind = "throw" => ~calls[j].started /\ calls[j].fetch = 0)
    /\ [][GetTokenThrows
            => UNCHANGED <<stateVars, rendered, tokenRequestRef, fetches>>]_vars

C4_Witness ==
    \E j \in DOMAIN calls :
        /\ props.tokenUrl = <<" ">>
        /\ calls[j].seen.isAuthenticated
        /\ calls[j].kind = "throw"
        /\ calls[j].error.code = "INVALID_TOKEN_URL"

\* ---------------------------------------------------------------- C5
\* C5: the token of the closure is served from cache exactly when
\* now + 30000 < expiresAt: at expiresAt = now + 31000 it is returned with no
\* request, at now + 29000 and now + 30000 the call goes to a token fetch.
C5_BufferIsStrict ==
    \A j \in DOMAIN calls :
        LET c == calls[j]
            ahead == c.seen.accessTokenExpiresAt - c.seen.now
        IN (c.kind # "throw" /\ c.seen.accessToken # <<>>) =>
             /\ c.kind = "cache" <=> c.seen.now + 30000 < c.seen.accessTokenExpiresAt
             /\ ahead = 31000 => c.kind = "cache"
             /\ ahead \in {29000, 30000} => c.kind = "fetch"
             /\ c.kind = "cache" =>
                   /\ c.value = c.seen.accessToken
                   /\ ~c.started /\ c.fetch = 0 /\ c.settled /\ c.ok

C5_Witness ==
    \E j \in DOMAIN calls :
        /\ calls[j].seen.accessToken # <<>>
        /\ calls[j].seen.accessTokenExpiresAt = calls[j].seen.now + 30000
        /\ calls[j].kind = "fetch"
        /\ calls[j].started

\* ---------------------------------------------------------------- C9
\* C9: a fetch all of whose token-endpoint calls fail with a 5xx status or a
\* network error makes exactly 3 calls with one delay between consecutive
\* calls, and its callers get TOKEN_FETCH_FAILED wrapping the last error.
C9_TokenRetryBound ==
    \A f \in DOMAIN fetches :
        (fetches[f].lastError # null /\ IsTransient(fetches[f].lastError)
           /\ ~fetches[f].ok) =>
            /\ fetches[f].pc = "delay" =>
                  /\ fetches[f].attempt < 3
                  /\ fetches[f].log[Len(fetches[f].log)] = "delay"
            /\ fetches[f].pc = "done" =>
                  /\ fetches[f].log = <<"call", "delay", "call", "delay", "call">>
                  /\ fetches[f].lastError.at = 3
                  /\ fetches[f].error =
                        [cls |-> "WristbandError", code |-> "TOKEN_FETCH_FAILED",
                         originalError |-> fetches[f].lastError]
                  /\ \A j \in DOMAIN calls :
                        (calls[j].kind = "fetch" /\ calls[j].fetch = f)
                           => /\ calls[j].settled /\ ~calls[j].ok
                              /\ calls[j].error = fetches[f].error
            /\ Len(fetches[f].log) <= 5

C9_Witness ==
    \E j \in DOMAIN calls :
        /\ calls[j].kind = "fetch" /\ calls[j].settled
        /\ calls[j].error.code = "TOKEN_FETCH_FAILED"
        /\ calls[j].error.originalError.cls = "TypeError"
        /\ fetchCalls(calls[j].fetch) = 3
        /\ fetchDelays(calls[j].fetch) = 2

\* ---------------------------------------------------------------- C10
\* Fetch f settles in this step on a 401.
SettlesOn401(f) ==
    /\ fetches[f].pc # "done"
    /\ fetches'[f].pc = "done"
    /\ fetches'[f].lastError.cls = "ApiError"
    /\ fetches'[f].lastError.status = 401

\* C10: a 4xx failure of a token-endpoint call, on whichever attempt, ends
\* the fetch with no further call; on a 401 the cached token and expiry are
\* cleared and the callers get UNAUTHENTICATED wrapping the error, on any
\* other 4xx they get TOKEN_FETCH_FAILED wrapping the error.
C10_Token4xxStops ==
    /\ [](\A f \in DOMAIN fetches :
            Is4xx(fetches[f].lastError) =>
                /\ fetches[f].pc = "done" /\ ~fetches[f].ok
                /\ fetchCalls(f) = fetches[f].lastError.at
                /\ fetches[f].log[Len(fetches[f].log)] = "call"
                /\ fetches[f].error =
                      [cls |-> "WristbandError",
                       code |-> IF fetches[f].lastError.status = 401
                                THEN "UNAUTHENTICATED" ELSE "TOKEN_FETCH_FAILED",
                       originalError |-> fetches[f].lastError]
                /\ \A j \in DOMAIN calls :
                      (calls[j].kind = "fetch" /\ calls[j].fetch = f)
                         => /\ calls[j].settled /\ ~calls[j].ok
                            /\ calls[j].error = fetches[f].error)
    /\ [][\A f \in DOMAIN fetches :
             SettlesOn401(f) => accessToken' = <<>> /\ accessTokenExpiresAt' = 0]_vars

C10_Witness ==
    \E f \in DOMAIN fetches :
        /\ fetches[f].pc = "done"
        /\ fetches[f].lastError.cls = "ApiError"
        /\ fetches[f].lastError.status = 401
        /\ fetches[f].lastError.at = 2
        /\ fetches[f].error.code = "UNAUTHENTICATED"
        /\ accessToken = <<>>
        /\ rendered.accessToken # <<>>

\* ---------------------------------------------------------------- C11
\* The body lacks a usable accessToken or a non-negative expiresAt.
BadTokenBody(data) ==
    \/ "accessToken" \notin DOMAIN data
    \/ \A i \in DOMAIN data.accessToken : data.accessToken[i] = " "
    \/ "expiresAt" \notin DOMAIN data
    \/ data.expiresAt < 0

\* Fetch f receives a 2xx response with such a body in this step.
ReceivesBadTokenBody(f) ==
    /\ fetches'[f].responses = fetches[f].responses + 1
    /\ BadTokenBody(fetches'[f].data)

\* C11: a 2xx token response whose accessToken is missing or blank, or whose
\* expiresAt is missing or negative, makes the fetch fail with
\* INVALID_TOKEN_RESPONSE for all its callers; the call that returned it is
\* the fetch's last token-endpoint call (exactly one call when it answers the
\* first attempt), and the cached token and expiry are not written.
C11_InvalidTokenResponse ==
    /\ [](\A f \in DOMAIN fetches :
            (fetches[f].responses > 0 /\ BadTokenBody(fetches[f].data)) =>
                /\ fetches[f].pc = "done" /\ ~fetches[f].ok
                /\ fetches[f].error =
                      [cls |-> "WristbandError", code |-> "INVALID_TOKEN_RESPONSE",
                       originalError |-> NoCause]
                /\ fetches[f].log[Len(fetches[f].log)] = "call"
                /\ fetchCalls(f) = fetches[f].attempt
                /\ fetches[f].attempt = 1 => fetches[f].log = <<"call">>
                /\ \A j \in DOMAIN calls :
                      (calls[j].kind = "fetch" /\ calls[j].fetch = f)
                         => /\ calls[j].settled /\ ~calls[j].ok
                            /\ calls[j].error = fetches[f].error)
    /\ [][\A f \in DOMAIN fetches :
             ReceivesBadTokenBody(f)
                => UNCHANGED <<accessToken, accessTokenExpiresAt>>]_vars

C11_Witness ==
    \E f \in DOMAIN fetches :
        /\ fetches[f].pc = "done"
        /\ fetches[f].data = [accessToken |-> <<"a">>, expiresAt |-> -1]
        /\ fetches[f].error.code = "INVALID_TOKEN_RESPONSE"
        /\ fetches[f].log = <<"call">>
        /\ accessToken = <<>> /\ accessTokenExpiresAt = 0

\* ---------------------------------------------------------------- C12
\* The bootstrap catches, in this step, the error that ends it for good: a
\* 4xx, or the failure of its third attempt (other than an invalid response).
SessionFailsPermanently ==
    /\ Len(session'.caught) = Len(session.caught) + 1
    /\ LET error == session'.caught[Len(session'.caught)]
       IN /\ error.cls # "WristbandError"
          /\ Is4xx(error) \/ Len(session'.caught) = 3

\* The classified error of the failure caught in this step.
ClassifiedSessionError ==
    LET error == session'.caught[Len(session'.caught)]
    IN [cls |-> "WristbandError",
        code |-> IF error.cls = "ApiError" /\ error.status = 401
                 THEN "UNAUTHENTICATED" ELSE "SESSION_FETCH_FAILED",
        originalError |-> error]

\* C12: with disableRedirectOnUnauthenticated, a permanent bootstrap failure
\* (401, other 4xx, third failed attempt) commits isLoading=false,
\* isAuthenticated=false and error = the classified error (UNAUTHENTICATED for
\* 401, SESSION_FETCH_FAILED otherwise, never null), and the browser location
\* is never assigned.
C12_FailureWithoutRedirect ==
    /\ [](props.disableRedirectOnUnauthenticated
             => navigations = 0 /\ href = CurrentPage)
    /\ [][(props.disableRedirectOnUnauthenticated /\ SessionFailsPermanently)
            => /\ isLoading' = FALSE
               /\ isAuthenticated' = FALSE
               /\ authError' = ClassifiedSessionError
               /\ authError' # null
               /\ AuthStatusOf(isLoading', isAuthenticated') = "UNAUTHENTICATED"]_vars

C12_Witness ==
    /\ props.disableRedirectOnUnauthenticated
    /\ Len(session.caught) = 3
    /\ session.caught[3] = ApiError(503, 3)
    /\ ~isLoading /\ ~isAuthenticated
    /\ authError = WristbandError("SESSION_FETCH_FAILED", ApiError(503, 3))
    /\ navigations = 0

\* ---------------------------------------------------------------- C13
\* The bootstrap has ended without authenticating the user.
SessionFailed == SessionEnded /\ session.pc # "authenticated"

\* C13: with redirect enabled, every bootstrap failure (401, other 4xx,
\* exhausted retries, invalid session response) is followed by a navigation to
\* the login URL, the bootstrap's last act, and the auth state never holds an
\* error.
C13_FailureRedirects ==
    ~props.disableRedirectOnUnauthenticated
       => /\ authError = null
          /\ SessionFailed
                => /\ navigations = 1
                   /\ href = resolveAuthProviderLoginUrl(props.loginUrl)

VisibleStates ==
    {CurrentState, rendered} \cup {session.flushed[i] : i \in DOMAIN session.flushed}

\* C15: in every state the application can see, the auth error is non-null
\* only if disableRedirectOnUnauthenticated is true, and when it is non-null
\* isLoading and isAuthenticated are both false.
C15_ErrorOnlyWithoutRedirect ==
    \A state \in VisibleStates :
        state.authError # null
           => /\ props.disableRedirectOnUnauthenticated
              /\ ~state.isLoading
              /\ ~state.isAuthenticated

\* ---------------------------------------------------------------- C16
\* onSessionSuccess is invoked in this step.
InvokesHook == session'.hookCalls = session.hookCalls + 1

\* C16: with onSessionSuccess configured, the hook is invoked on a response
\* that has passed validation, in the step that received it; from then until
\* the hook's result has settled the bootstrap changes no part of the auth
\* state, it commits only in the step in which the hook settles, and no state
\* the application sees is authenticated before that.
C16_HookBeforeCommit ==
    /\ [](props.onSessionSuccess
             => /\ session.pc = "hook"
                   => /\ ValidIds(session.data)
                      /\ session.hookCalls = session.responses
                /\ (\E state \in VisibleStates : state.isAuthenticated)
                   => /\ session.pc = "authenticated"
                      /\ session.hookCalls > 0)
    /\ [][
           /\ InvokesHook
              => /\ props.onSessionSuccess
                 /\ session.pc = "get" /\ session'.pc = "hook"
                 /\ session'.responses = session.responses + 1
                 /\ ValidIds(session'.data)
                 /\ UNCHANGED <<stateVars, rendered>>
           /\ (props.onSessionSuccess /\ session' # session
                 /\ session'.pc # "authenticated")
              => UNCHANGED <<metadata, userId, tenantId>>
           /\ (props.onSessionSuccess /\ session.pc # "authenticated"
                 /\ session'.pc = "authenticated")
              => session.pc = "hook"]_vars

C16_Witness ==
    /\ props.onSessionSuccess
    /\ session.pc = "hook"
    /\ session.hookCalls = 2
    /\ isLoading /\ ~isAuthenticated
    /\ userId = <<>> /\ tenantId = <<>> /\ metadata = <<>>
    /\ "metadata" \in DOMAIN session.data

\* ---------------------------------------------------------------- C17
\* The bootstrap commits a session in this step.
CommitsSession == session.pc # "authenticated" /\ session'.pc = "authenticated"

\* The metadata field of a response body; undefined when the body has none.
RawMetadataOf(data) ==
    IF "metadata" \in DOMAIN data THEN data.metadata ELSE [undefined |-> TRUE]

CallsClearAuthData == clears' = Append(clears, "clearAuthData")

\* C18: from any state, clearAuthData() yields isAuthenticated=false and
\* isLoading=false (status UNAUTHENTICATED), error=null, userId='',
\* tenantId='', metadata={}, token '' with expiry 0 and no in-flight marker;
\* it sends no request to either endpoint and assigns no location.
C18_ClearAuthDataResets ==
    [][CallsClearAuthData
         => /\ isAuthenticated' = FALSE
            /\ isLoading' = FALSE
            /\ AuthStatusOf(isLoading', isAuthenticated') = "UNAUTHENTICATED"
            /\ authError' = null
            /\ userId' = <<>> /\ tenantId' = <<>> /\ metadata' = <<>>
            /\ accessToken' = <<>> /\ accessTokenExpiresAt' = 0
            /\ tokenRequestRef' = 0
            /\ UNCHANGED <<fetches, session, href, navigations>>]_vars

C18_Witness ==
    /\ clears = <<"clearAuthData">>
    /\ \E j \in DOMAIN calls :
          /\ calls[j].started
          /\ calls[j].stored.accessToken = <<"a">>
          /\ calls[j].fetch \in PendingFetches
    /\ tokenRequestRef = 0
    /\ ~isAuthenticated /\ userId = <<>> /\ accessToken = <<>>

\* ---------------------------------------------------------------- C19
\* Call j is the first getToken() call made after a clearToken() call.
FirstCallAfterClearToken(j) ==
    /\ calls[j].clears # <<>>
    /\ calls[j].clears[Len(calls[j].clears)] = "clearToken"
    /\ j > 1 => calls[j - 1].clears # calls[j].clears

\* C19: the first getToken() call after clearToken(), made by an
\* authenticated user, returns no token of a request started before the
\* clear: it gets the promise of a fetch that was started after the clear, by
\* itself or by a call it joins.
C19_FreshTokenAfterClear ==
    \A j \in DOMAIN calls :
        (/\ FirstCallAfterClearToken(j)
         /\ calls[j].seen.isAuthenticated /\ calls[j].stored.isAuthenticated
         /\ calls[j].kind # "throw")
        => /\ calls[j].kind = "fetch"
           /\ \E k \in 1..j :
                 /\ calls[k].started
                 /\ calls[k].fetch = calls[j].fetch
                 /\ calls[k].clears = calls[j].clears

\* ---------------------------------------------------------------- C20
\* clearToken() is called in this step.
CallsClearToken == clears' = Append(clears, "clearToken")

\* C20: clearToken() sets the cached token to '', its expiry to 0 and the
\* in-flight marker to null, sends no request to either endpoint, and leaves
\* isAuthenticated, isLoading, error, userId, tenantId and metadata unchanged.
C20_ClearTokenFrame ==
    [][CallsClearToken
         => /\ accessToken' = <<>>
            /\ accessTokenExpiresAt' = 0
            /\ tokenRequestRef' = 0
            /\ UNCHANGED <<fetches, session, href, navigations>>
            /\ UNCHANGED <<isAuthenticated, isLoading, authError, userId,
                           tenantId, metadata>>]_vars

C20_Witness ==
    /\ clears = <<"clearToken">>
    /\ PendingFetches # {}
    /\ tokenRequestRef = 0
    /\ accessToken = <<>> /\ accessTokenExpiresAt = 0
    /\ rendered.accessToken = <<"a">>
    /\ isAuthenticated /\ userId = <<"u", "1">>

\* ---------------------------------------------------------------- C21
\* updateMetadata() is called in this step.
CallsUpdateMetadata == updates' = updates + 1

\* `merged` is the shallow merge of `partial` into `current`.
IsShallowMerge(merged, current, partial) ==
    /\ DOMAIN merged = DOMAIN current \cup DOMAIN partial
    /\ \A key \in DOMAIN partial : merged[key] = partial[key]
    /\ \A key \in DOMAIN current \ DOMAIN partial : merged[key] = current[key]

\* C21: in any auth status, updateMetadata(partial) sets metadata to the
\* shallow merge of the current metadata with partial (keys of partial
\* override, all other keys are kept) and changes nothing else: the status
\* flags, error, userId, tenantId, token cache and in-flight marker (and the
\* bootstrap, the fetches and the location) are unchanged.
C21_UpdateMetadataMerges ==
    [][CallsUpdateMetadata
         => /\ \E partial \in {[role |-> "user"], [plan |-> "pro"]} :
                  IsShallowMerge(metadata', metadata, partial)
            /\ UNCHANGED <<isAuthenticated, isLoading, authError, userId, tenantId,
                           accessToken, accessTokenExpiresAt, tokenRequestRef>>
            /\ UNCHANGED <<fetches, calls, session, href, navigations>>]_vars

C21_Witness ==
    /\ updates = 1
    /\ session.pc = "authenticated"
    /\ isAuthenticated
    /\ "metadata" \in DOMAIN session.data
    /\ props.transformSessionMetadata
    /\ metadata = [name |-> "admin", role |-> "user"]

\* ---------------------------------------------------------------- C22
\* C22: in every state the application can see in which isAuthenticated is
\* true, userId and tenantId are both non-empty (and not blank).
C22_AuthenticatedHasIds ==
    \A state \in VisibleStates :
        state.isAuthenticated
           => /\ state.userId # <<>> /\ state.tenantId # <<>>
              /\ \E i \in DOMAIN state.userId : state.userId[i] # " "
              /\ \E i \in DOMAIN state.tenantId : state.tenantId[i] # " "

C22_Witness ==
    /\ Len(session.flushed) = 6
    /\ session.flushed[4].isAuthenticated /\ session.flushed[4].isLoading
    /\ session.flushed[4].userId = <<"u", "1">>
    /\ isAuthenticated /\ tenantId = <<"t", "1">>

\* ---------------------------------------------------------------- C23
\* C23: the bootstrap runs once per provider: the session endpoint gets at
\* most 3 calls in total, one per attempt of the one retry loop; once the
\* bootstrap has ended nothing restarts it or sends another session request,
\* whatever operations and re-renders follow.
C23_BootstrapRunsOnce ==
    /\ [](/\ Cardinality({i \in DOMAIN session.log : session.log[i] = "call"}) <= 3
          /\ Cardinality({i \in DOMAIN session.log : session.log[i] = "call"})
                = session.attempt)
    /\ [][/\ session.pc # "mounted" => session'.pc # "mounted"
          /\ session'.attempt >= session.attempt
          /\ SessionEnded => session' = session]_vars

C23_Witness ==
    /\ sessionCalls = 3
    /\ session.pc = "authenticated"
    /\ clears = <<"clearAuthData">>
    /\ updates = 1
    /\ rendered = CurrentState

\* A parsed URL, as opposed to a text that is no URL and to a thrown error.
IsUrl(url) == "path" \in DOMAIN url

\* C24: in a browser, resolveAuthProviderLoginUrl(loginUrl) returns the login
\* URL with a return_url parameter equal to the current page URL appended when
\* loginUrl has no return_url parameter, and returns it with the existing
\* return_url kept and no second one added when it has one; path, fragment and
\* all other query parameters are preserved, and resolving an already resolved
\* URL changes nothing.
C24_LoginUrlResolved ==
    \A i \in DOMAIN resolutions :
        LET r == resolutions[i]
        IN (IsUrl(r.loginUrl) /\ r.window.defined) =>
              /\ IsUrl(r.returned)
              /\ r.returned.path = r.loginUrl.path
              /\ r.returned.hash = r.loginUrl.hash
              /\ r.returned.origin \in {r.loginUrl.origin, r.window.location.origin}
              /\ ~HasParam(r.loginUrl, "return_url")
                    => r.returned.params =
                          Append(r.loginUrl.params,
                                 [key |-> "return_url",
                                  value |-> r.window.location.href])
              /\ HasParam(r.loginUrl, "return_url")
                    => r.returned.params = r.loginUrl.params
              /\ i > 1 => r.returned = r.loginUrl

\* C25: at any time at most one token fetch is pending, under every
\* interleaving of getToken(), clearToken(), clearAuthData() and settlements.
C25_OnePendingFetch == Cardinality(PendingFetches) <= 1

\* C26: the token cache is written only by the fetch that owns the in-flight
\* marker at the moment of the write: a fetch that settles while the marker no
\* longer points to it (discarded by clearToken() or clearAuthData(), or
\* replaced by a later fetch) leaves the cached value and expiry as they are.
C26_OnlyOwnerWritesCache ==
    [][\A f \in DOMAIN fetches :
          (/\ fetches[f].pc # "done"
           /\ fetches'[f].pc = "done"
           /\ tokenRequestRef # f)
              => UNCHANGED <<accessToken, accessTokenExpiresAt>>]_vars

\* C27: when a token fetch settles, with success or with any failure, the
\* in-flight marker it set is null by the time a caller has its result: the
\* marker never points to a settled fetch, and a getToken() call that misses
\* the cache and finds the marker null starts a new fetch, never receiving one
\* that had already settled.
C27_MarkerClearedOnSettle ==
    /\ tokenRequestRef # 0 => tokenRequestRef \in PendingFetches
    /\ \A i \in DOMAIN calls :
          LET c == calls[i]
          IN /\ (c.kind = "fetch" /\ c.settled)
                   => fetches[c.fetch].pc = "done" /\ tokenRequestRef # c.fetch
             /\ c.kind = "fetch"
                   => /\ c.started <=> c.seen.ref = 0
                      /\ c.started => c.fetch \notin c.pending
                      /\ ~c.started => c.fetch \in c.pending

\* A fetch failed and settled; the next call, with no clearToken() or
\* clearAuthData() in between, started a fetch of its own.
C27_Witness ==
    /\ Len(calls) = 2 /\ clears = <<>>
    /\ calls[1].kind = "fetch" /\ calls[1].started /\ calls[1].settled
    /\ ~calls[1].ok
    /\ calls[2].kind = "fetch" /\ calls[2].started /\ calls[2].fetch = 2
    /\ calls[2].pending = {}

\* C28: a getToken() call made by an authenticated user while the in-flight
\* marker is non-null, and not answered from the cache, joins the fetch the
\* marker points to and sends no token-endpoint request of its own (requests
\* are sent only by the fetches, one per call that started one); when the
\* shared fetch fails every caller of it receives the same error, and the
\* fetch has called the token endpoint at most 3 times however many joined.
C28_JoinWhileMarkerSet ==
    /\ \A i \in DOMAIN calls :
          LET c == calls[i]
          IN (c.seen.ref # 0 /\ c.stored.isAuthenticated /\ c.kind # "cache")
                => /\ c.kind = "fetch"
                   /\ ~c.started
                   /\ c.fetch = c.seen.ref
                   /\ c.fetch \in c.pending
    /\ Len(fetches)
          = Cardinality({i \in DOMAIN calls :
                            calls[i].kind = "fetch" /\ calls[i].started})
    /\ \A f \in DOMAIN fetches :
          /\ Cardinality({k \in DOMAIN fetches[f].log :
                             fetches[f].log[k] = "call"}) <= 3
          /\ (fetches[f].pc = "done" /\ ~fetches[f].ok)
                => \A i \in DOMAIN calls :
                      (calls[i].kind = "fetch" /\ calls[i].fetch = f)
                         => /\ calls[i].settled /\ ~calls[i].ok
                            /\ calls[i].error = fetches[f].error
    /\ Len(fetches) = 1 => tokenEndpointCalls <= 3

\* A second caller joined fetch 1 through the marker; the fetch used up its
\* three attempts and both callers hold the same TOKEN_FETCH_FAILED error.
C28_Witness ==
    /\ Len(calls) = 2 /\ Len(fetches) = 1
    /\ calls[2].seen.ref = 1 /\ calls[2].stored.isAuthenticated
    /\ ~calls[2].started /\ calls[2].fetch = 1
    /\ fetches[1].pc = "done" /\ ~fetches[1].ok
    /\ tokenEndpointCalls = 3
    /\ calls[2].settled /\ calls[1].error = calls[2].error
    /\ calls[2].error.code = "TOKEN_FETCH_FAILED"

\* C29: when every session-endpoint call, the onSessionSuccess hook and every
\* retry delay settle, the bootstrap eventually reaches a terminal outcome: it
\* commits AUTHENTICATED, commits UNAUTHENTICATED, or navigates to the login
\* URL; the provider does not stay LOADING for ever without a navigation.
C29_BootstrapTerminates ==
    /\ <>(\/ session.pc = "authenticated"
          \/ session.pc = "failed"
          \/ navigations > 0)
    /\ []<>(authStatus # "LOADING" \/ navigations > 0)

\* C30: a bootstrap performs at most one terminal action. It navigates at most
\* once, and only in the step that ends it as redirected, which commits no
\* state; the step that commits AUTHENTICATED or UNAUTHENTICATED does not
\* navigate; a step that leaves it retrying (or ends it by a throw) changes no
\* state and does not navigate; and once it has ended it takes no further step.
C30_OneTerminalAction ==
    /\ [](/\ navigations <= 1
          /\ navigations = 1 <=> session.pc = "redirected")
    /\ [][session' # session =>
             /\ ~SessionEnded
             /\ session'.pc \in {"get", "hook", "delay", "threw"}
                   => UNCHANGED <<stateVars, rendered, href, navigations>>
             /\ session'.pc = "redirected"
                   => /\ UNCHANGED <<stateVars, rendered>>
                      /\ navigations' = navigations + 1
             /\ session'.pc \in {"authenticated", "failed"}
                   => UNCHANGED <<href, navigations>>]_vars

\* The bootstrap retried twice and then navigated, with the state it started
\* with still in place.
C30_Witness ==
    /\ session.pc = "redirected" /\ sessionDelays = 2
    /\ navigations = 1 /\ authStatus = "LOADING" /\ authError = null
    /\ clears = <<>> /\ updates = 0

\* C31: the settlement of a token fetch never clears an in-flight marker that
\* refers to a different, still pending fetch: the marker is removed only by
\* clearToken()/clearAuthData() or by the settlement of the fetch it refers to.
C31_SettleKeepsOtherMarker ==
    [][\A f \in DOMAIN fetches :
          (/\ fetches[f].pc # "done"
           /\ fetches'[f].pc = "done"
           /\ tokenRequestRef # 0
           /\ tokenRequestRef # f)
              => tokenRequestRef' = tokenRequestRef]_vars

\* C32: in every reachable state in which isAuthenticated is false the token
\* cache is empty (token '' and expiry 0); in particular a token fetch that
\* was pending when clearAuthData() was called does not repopulate the cache.
C32_NoTokenWhenUnauthenticated ==
    ~isAuthenticated => accessToken = <<>> /\ accessTokenExpiresAt = 0

\* C33: a request to the token endpoint is sent only while isAuthenticated is
\* true: after clearAuthData() no token-endpoint request is sent any more,
\* the remaining retry attempts of a fetch started before it included.
C33_TokenRequestsOnlyWhenAuthenticated ==
    [][tokenEndpointCalls' > tokenEndpointCalls => isAuthenticated]_vars

\* C34: after clearAuthData() has been called isAuthenticated stays false in
\* every later state and no error is set: no later event, the settlement of a
\* session request that was pending at that moment included, undoes it.
C34_ClearedStaysCleared ==
    (\E k \in DOMAIN clears : clears[k] = "clearAuthData")
        => ~isAuthenticated /\ authError = null

\* C35: the onSessionSuccess hook is invoked at most once per bootstrap, and
\* once a session response has passed validation the session endpoint is not
\* called again, also when the hook or the metadata transform throws.
C35_HookOnceNoCallAfterValid ==
    /\ [](session.hookCalls <= 1)
    /\ [][(session.responses > 0 /\ ValidIds(session.data))
             => Cardinality({k \in DOMAIN session'.log :
                                session'.log[k] = "call"})
                   = Cardinality({k \in DOMAIN session.log :
                                     session.log[k] = "call"})]_vars

\* C36: no state has isLoading = true and isAuthenticated = true at the same
\* time, the states rendered between the individual state updates of a
\* bootstrap success commit included.
C36_NeverLoadingAndAuthenticated ==
    \A state \in VisibleStates : ~(state.isLoading /\ state.isAuthenticated)

C38_EveryCallSettles ==
    /\ \A j \in 1..MaxCalls :
          (Len(calls) >= j) ~> (Len(calls) >= j /\ calls[j].settled)
    /\ [](\A f \in DOMAIN fetches :
             /\ Cardinality({k \in DOMAIN fetches[f].log :
                                fetches[f].log[k] = "call"}) <= 3
             /\ Cardinality({k \in DOMAIN fetches[f].log :
                                fetches[f].log[k] = "delay"}) <= 2)

\* A call joined fetch 1, clearToken() then discarded the marker, and the
\* call was settled all the same, after the fetch had used all its attempts.
C38_Witness ==
    /\ Len(calls) = 2 /\ clears = <<"clearToken">>
    /\ calls[2].kind = "fetch" /\ ~calls[2].started /\ calls[2].fetch = 1
    /\ calls[2].clears = <<>>
    /\ calls[2].settled
    /\ fetches[1].log = <<"call", "delay", "call", "delay", "call">>

====
